---- MODULE Spec2Model ----
(***************************************************************************)
(* The Meshtastic example scripts (src/examples/*.py) as state machines.   *)
(* Every script is its own process: `prog` says which script main() was    *)
(* started; its module-level globals are the state, and every on_receive   *)
(* callback (one pubsub delivery) is one action.  Python dicts are         *)
(* functions whose DOMAIN is the set of keys present; an optional value is *)
(* a sequence of length 0 or 1.                                            *)
(***************************************************************************)
EXTENDS Integers, Sequences, FiniteSets, TLC

VARIABLES
    prog,                        \* the script that is running
    now,                         \* what time.time() returns
    config,                      \* temperature_alert.py: the configuration block
    battery_last_alert_time,     \* battery_monitor.py: last_alert_time
    node_batteries,              \* battery_monitor.py: node_batteries
    temperature_last_alert_time, \* temperature_alert.py: last_alert_time
    last_response_time,          \* auto_responder.py: last_response_time
    pc,                          \* scheduled_broadcaster.py: position in main()
    running,                     \* scheduled_broadcaster.py: running
    last_send,                   \* scheduled_broadcaster.py: last_send
    resumed,                     \* the latest send blocked for more than an
                                 \* interval and no poll has followed it yet
    last,                        \* observation of the latest handler call / send
    emitted,                     \* per node, the latest sendText made for an
                                 \* event of that node: <<time.time() then, the
                                 \* real time then>> and, in the battery
                                 \* monitor, the level alerted about
    skew,                        \* by how much the system clock has been set
                                 \* forward (back, when negative) since the start
    inflight                     \* handler calls that have begun and not ended,
                                 \* by thread: the locals of each

battery_vars == <<battery_last_alert_time, node_batteries>>

broadcaster_vars == <<pc, running, last_send, resumed>>

vars == <<prog, now, config, battery_last_alert_time, node_batteries,
          temperature_last_alert_time, last_response_time, pc, running,
          last_send, resumed, last, emitted, skew, inflight>>

-----------------------------------------------------------------------------
(* Python dict operations *)

EmptyDict == [k \in {} |-> 0]

Get(d, k, default) == IF k \in DOMAIN d THEN d[k] ELSE default

Put(d, k, v) == [x \in (DOMAIN d) \cup {k} |-> IF x = k THEN v ELSE d[x]]

-----------------------------------------------------------------------------
(* The environment: clock, mesh nodes, transport *)

\* time.time() when the process starts (seconds since the epoch).
StartTime == 1700000000

\* Number of cooldown windows the clock is followed through.
MaxWindows == 1

\* Seconds between two deliveries that are close together.
ShortGap == 10

Nodes == {"!a", "!b"}

\* interface.nodes: "!a" has a long name, "!b" is not in the directory.
NodeDirectory == [n \in {"!a"} |-> [user |-> [longName |-> "Alpha"]]]

\* interface.sendText either returns or raises.
SendOutcomes == {"ok", "raise"}

get_node_name(nodes, node_id) ==
    IF node_id \in DOMAIN nodes /\ "user" \in DOMAIN nodes[node_id]
    THEN Get(nodes[node_id].user, "longName", node_id)
    ELSE node_id

\* One sendText call as the transport sees it.
SendCall(text, destinationId, channelIndex, outcome) ==
    [text |-> text, destinationId |-> destinationId,
     channelIndex |-> channelIndex, outcome |-> outcome]

\* The observation of a handler call that did nothing observable.
\* handler: the script; sender: sender_id; at: current_time; last_time: the
\* cooldown timestamp the handler read; trigger: the event meets the rule's
\* predicate (low battery, threshold crossed, keyword contained); gated: the
\* cooldown test refused; calls: the sendText calls made, in order; raised: an
\* exception left the handler; logged: the line appended to the log file;
\* prev_emit: `emitted` of the sender before the call; done: when the call ended;
\* prev_done: when the previous scheduled send ended; input: the packet
\* handed to the call; prev: input and logged of the latest earlier call that
\* wrote a row; real: the real time of the call (what the clock would show had
\* it never been set); previous_level: what node_batteries held for the sender
\* before the call.
NoCall ==
    [handler |-> "none", sender |-> "", at |-> 0, last_time |-> 0,
     trigger |-> FALSE, gated |-> FALSE, calls |-> <<>>, raised |-> FALSE,
     logged |-> <<>>, value |-> 0, prev_emit |-> <<>>, done |-> 0,
     prev_done |-> <<>>, input |-> <<>>, prev |-> <<>>, real |-> 0,
     previous_level |-> <<>>]

-----------------------------------------------------------------------------
(* battery_monitor.py *)

LOW_BATTERY_THRESHOLD == 20

BATTERY_ALERT_COOLDOWN == 3600

BatteryLevels == {LOW_BATTERY_THRESHOLD, LOW_BATTERY_THRESHOLD + 1}

BatteryTelemetry(from, level) ==
    [fromId |-> from,
     decoded |-> [portnum |-> "TELEMETRY_APP",
                  telemetry |-> [deviceMetrics |-> [batteryLevel |-> level]]]]

BatteryPackets ==
    {BatteryTelemetry(n, l) : n \in Nodes, l \in BatteryLevels}
    \cup {[fromId |-> "!a"],
          [fromId |-> "!a", decoded |-> [portnum |-> "TEXT_MESSAGE_APP"]],
          [fromId |-> "!a",
           decoded |-> [portnum |-> "TELEMETRY_APP",
                        telemetry |-> [environmentMetrics |-> [temperature |-> 200]]]],
          [decoded |-> [portnum |-> "TELEMETRY_APP",
                        telemetry |-> [deviceMetrics |-> [voltage |-> 4]]]]}

\* The cooldown test of line 108.
BatteryCooldownPassed(current_time, last_time) ==
    current_time - last_time >= BATTERY_ALERT_COOLDOWN

\* The threshold test of line 102.
BatteryIsLow(battery_level) == battery_level <= LOW_BATTERY_THRESHOLD

BatterySendThenStampEveryNode(alert_times, sender_id, current_time, outcome) ==
    IF outcome = "ok"
    THEN [n \in (DOMAIN alert_times) \cup {sender_id} |-> current_time]
    ELSE alert_times

\* Lines 111-112: sendText, and only when it returned the timestamp is stored.
BatterySendThenStamp(alert_times, sender_id, current_time, outcome) ==
    IF outcome = "ok" THEN Put(alert_times, sender_id, current_time)
    ELSE alert_times

\* on_receive of battery_monitor.py, one whole call.
BatteryOnReceive(packet, outcome) ==
    /\ prog = "battery"
    /\ UNCHANGED <<prog, skew, inflight,
                   now, config, temperature_last_alert_time,
                   last_response_time, broadcaster_vars>>
    /\ IF "decoded" \notin DOMAIN packet
       THEN /\ last' = [NoCall EXCEPT !.handler = "battery",
                                  !.input = <<packet>>]
            /\ UNCHANGED <<battery_vars, emitted>>
       ELSE
       LET portnum == Get(packet.decoded, "portnum", "")
           telemetry == Get(packet.decoded, "telemetry", EmptyDict)
           device_metrics == Get(telemetry, "deviceMetrics", EmptyDict)
       IN
       IF portnum # "TELEMETRY_APP" \/ "batteryLevel" \notin DOMAIN device_metrics
       THEN /\ last' = [NoCall EXCEPT !.handler = "battery",
                                  !.input = <<packet>>]
            /\ UNCHANGED <<battery_vars, emitted>>
       ELSE
       LET battery_level == device_metrics.batteryLevel
           sender_id == Get(packet, "fromId", "unknown")
           sender_name == get_node_name(NodeDirectory, sender_id)
           previous_level == IF sender_id \in DOMAIN node_batteries
                             THEN <<node_batteries[sender_id]>> ELSE <<>>
           current_time == now
           last_time == Get(battery_last_alert_time, sender_id, 0)
           alert == /\ BatteryIsLow(battery_level)
                    /\ BatteryCooldownPassed(current_time, last_time)
           alert_msg == [kind |-> "LOW BATTERY", name |-> sender_name,
                         value |-> battery_level]
           obs == [NoCall EXCEPT
                     !.handler = "battery", !.sender = sender_id,
                     !.at = current_time, !.done = current_time,
                     !.real = current_time - skew,
                     !.last_time = last_time, !.value = battery_level,
                     !.previous_level = previous_level,
                     !.input = <<packet>>,
                     !.logged = <<[node_id |-> sender_id, node_name |-> sender_name,
                                   battery_percent |-> battery_level]>>,
                     !.prev_emit = Get(emitted, sender_id, <<>>),
                     !.trigger = BatteryIsLow(battery_level),
                     !.gated = BatteryIsLow(battery_level)
                               /\ ~BatteryCooldownPassed(current_time, last_time)]
       IN
       /\ node_batteries' = Put(node_batteries, sender_id, battery_level)
       /\ IF alert
          THEN /\ last' = [obs EXCEPT
                             !.calls = <<SendCall(alert_msg, <<>>, <<>>, outcome)>>,
                             !.raised = (outcome = "raise")]
               /\ emitted' = Put(emitted, sender_id,
                                <<current_time, current_time - skew, battery_level>>)
               /\ battery_last_alert_time' =
                    BatterySendThenStamp(battery_last_alert_time, sender_id,
                                         current_time, outcome)
          ELSE /\ last' = obs
               /\ UNCHANGED <<battery_last_alert_time, emitted>>

-----------------------------------------------------------------------------
(* temperature_alert.py *)

\* Temperatures are exact rationals: an integer count of 1/450 degree, so that
\* * 9/5 and * 5/9 of the values used stay integral.  (Python computes in
\* binary floating point; rounding is not modelled.)
Deg(n) == n * 450

Tenths(n) == n * 45

LOW_TEMP_THRESHOLD == 40

HIGH_TEMP_THRESHOLD == 90

TEMPERATURE_ALERT_COOLDOWN == 1800

\* The configuration block as shipped, with USE_CELSIUS switched on, and with
\* the low threshold set above the high one.
Configs ==
    {[LOW_TEMP_THRESHOLD |-> LOW_TEMP_THRESHOLD,
      HIGH_TEMP_THRESHOLD |-> HIGH_TEMP_THRESHOLD, USE_CELSIUS |-> FALSE],
     [LOW_TEMP_THRESHOLD |-> LOW_TEMP_THRESHOLD,
      HIGH_TEMP_THRESHOLD |-> HIGH_TEMP_THRESHOLD, USE_CELSIUS |-> TRUE],
     [LOW_TEMP_THRESHOLD |-> HIGH_TEMP_THRESHOLD,
      HIGH_TEMP_THRESHOLD |-> LOW_TEMP_THRESHOLD, USE_CELSIUS |-> FALSE]}

ShippedConfig ==
    [LOW_TEMP_THRESHOLD |-> LOW_TEMP_THRESHOLD,
     HIGH_TEMP_THRESHOLD |-> HIGH_TEMP_THRESHOLD, USE_CELSIUS |-> FALSE]

\* Sensor readings in tenths of a degree Celsius: 4.4, 4.5, 20.0, 32.3.
TempReadings == {44, 45, 200, 323}

TemperaturePackets ==
    {[fromId |-> n,
      decoded |-> [portnum |-> "TELEMETRY_APP",
                   telemetry |-> [environmentMetrics |-> [temperature |-> r]]]] :
        n \in Nodes, r \in TempReadings}
    \cup {[fromId |-> "!a"],
          [fromId |-> "!a", decoded |-> [portnum |-> "POSITION_APP"]],
          [fromId |-> "!a",
           decoded |-> [portnum |-> "TELEMETRY_APP",
                        telemetry |-> [deviceMetrics |-> [batteryLevel |-> 15]]]]}

celsius_to_fahrenheit(celsius) == ((celsius * 9) \div 5) + Deg(32)

low_threshold_unconverted(cfg) == Deg(cfg.LOW_TEMP_THRESHOLD)

\* Lines 90-96: the thresholds in the unit of the comparison.
low_threshold(cfg) ==
    IF ~cfg.USE_CELSIUS THEN Deg(cfg.LOW_TEMP_THRESHOLD)
    ELSE ((Deg(cfg.LOW_TEMP_THRESHOLD) - Deg(32)) * 5) \div 9

high_threshold(cfg) ==
    IF ~cfg.USE_CELSIUS THEN Deg(cfg.HIGH_TEMP_THRESHOLD)
    ELSE ((Deg(cfg.HIGH_TEMP_THRESHOLD) - Deg(32)) * 5) \div 9

\* Lines 98-101: if temp < low ... elif temp > high ...
TempAlertKindHighFirst(temp, low, high) ==
    IF temp > high THEN "HIGH TEMP ALERT"
    ELSE IF temp < low THEN "LOW TEMP ALERT"
    ELSE "none"

TempAlertKind(temp, low, high) ==
    IF temp < low THEN "LOW TEMP ALERT"
    ELSE IF temp > high THEN "HIGH TEMP ALERT"
    ELSE "none"

\* The cooldown test of line 87.
TempCooldownPassed(time_since_alert) ==
    time_since_alert >= TEMPERATURE_ALERT_COOLDOWN

\* Lines 66-101 as a function of the configuration block, the reading (tenths
\* of a degree Celsius) and the time since the last alert: the alert that is
\* sent, "none" when no alert is sent.
AlertDecision(cfg, reading, time_since_alert) ==
    LET temp_celsius == Tenths(reading)
        temp == IF cfg.USE_CELSIUS THEN temp_celsius
                ELSE celsius_to_fahrenheit(temp_celsius)
    IN  IF TempCooldownPassed(time_since_alert)
        THEN TempAlertKind(temp, low_threshold(cfg), high_threshold(cfg))
        ELSE "none"

\* on_receive of temperature_alert.py, one whole call.
TemperatureOnReceive(packet, outcome) ==
    /\ prog = "temperature"
    /\ UNCHANGED <<prog, skew, inflight,
                   now, config, battery_vars, last_response_time,
                   broadcaster_vars>>
    /\ IF "decoded" \notin DOMAIN packet
       THEN /\ last' = [NoCall EXCEPT !.handler = "temperature",
                                  !.input = <<packet>>]
            /\ UNCHANGED <<temperature_last_alert_time, emitted>>
       ELSE
       LET portnum == Get(packet.decoded, "portnum", "")
           telemetry == Get(packet.decoded, "telemetry", EmptyDict)
           env_metrics == Get(telemetry, "environmentMetrics", EmptyDict)
       IN
       IF portnum # "TELEMETRY_APP" \/ "temperature" \notin DOMAIN env_metrics
       THEN /\ last' = [NoCall EXCEPT !.handler = "temperature",
                                  !.input = <<packet>>]
            /\ UNCHANGED <<temperature_last_alert_time, emitted>>
       ELSE
       LET temp_celsius == Tenths(env_metrics.temperature)
           temp == IF config.USE_CELSIUS THEN temp_celsius
                   ELSE celsius_to_fahrenheit(temp_celsius)
           unit == IF config.USE_CELSIUS THEN "C" ELSE "F"
           sender_id == Get(packet, "fromId", "unknown")
           current_time == now
           time_since_alert == current_time - temperature_last_alert_time
           kind == TempAlertKind(temp, low_threshold(config), high_threshold(config))
           alert == TempCooldownPassed(time_since_alert) /\ kind # "none"
           alert_message == [kind |-> kind, value |-> temp, unit |-> unit]
           obs == [NoCall EXCEPT
                     !.handler = "temperature", !.sender = sender_id,
                     !.at = current_time, !.done = current_time,
                     !.real = current_time - skew,
                     !.last_time = temperature_last_alert_time,
                     !.value = temp, !.input = <<packet>>,
                     !.prev_emit = Get(emitted, sender_id, <<>>),
                     !.trigger = (kind # "none"),
                     !.gated = ~TempCooldownPassed(time_since_alert)]
       IN
       IF alert
       THEN /\ last' = [obs EXCEPT
                          !.calls = <<SendCall(alert_message, <<>>, <<>>, outcome)>>,
                          !.raised = (outcome = "raise")]
            /\ emitted' = Put(emitted, sender_id,
                                <<current_time, current_time - skew>>)
            /\ temperature_last_alert_time' =
                 IF outcome = "ok" THEN current_time
                 ELSE temperature_last_alert_time
       ELSE /\ last' = obs
            /\ UNCHANGED <<temperature_last_alert_time, emitted>>

-----------------------------------------------------------------------------
(* auto_responder.py *)

\* A str is the sequence of its code points, a bytes object the sequence of
\* its byte values.

RESPONSE_COOLDOWN == 60

INCLUDE_BATTERY_IN_STATUS == TRUE

\* The RESPONSES dict in its insertion order, which is the order
\* RESPONSES.items() iterates in: "status", "help", "info", "ping".
RESPONSES ==
    <<[keyword |-> <<115, 116, 97, 116, 117, 115>>,
       response |-> "AUTO-REPLY: Node is online and operational."],
      [keyword |-> <<104, 101, 108, 112>>,
       response |-> "AUTO-REPLY: Available commands: status, help, info"],
      [keyword |-> <<105, 110, 102, 111>>,
       response |-> "AUTO-REPLY: This is an automated Meshtastic node."],
      [keyword |-> <<112, 105, 110, 103>>,
       response |-> "AUTO-REPLY: Pong!"]>>

\* Payloads: b"Status?", b"help status", b"HELLO", b" Ping\n", b"ping info",
\* b"What is the STATUS", b"info\xff".
Payloads ==
    {<<83, 116, 97, 116, 117, 115, 63>>,
     <<104, 101, 108, 112, 32, 115, 116, 97, 116, 117, 115>>,
     <<72, 69, 76, 76, 79>>,
     <<32, 80, 105, 110, 103, 10>>,
     <<112, 105, 110, 103, 32, 105, 110, 102, 111>>,
     <<87, 104, 97, 116, 32, 105, 115, 32, 116, 104, 101, 32, 83, 84, 65, 84, 85, 83>>,
     <<105, 110, 102, 111, 255>>}

\* b'', the default of packet['decoded'].get('payload', b'')
NoPayload == <<>>

TextPackets ==
    {[fromId |-> n, decoded |-> [portnum |-> "TEXT_MESSAGE_APP", payload |-> p]] :
        n \in Nodes, p \in Payloads}
    \cup {[fromId |-> "!a"],
          [fromId |-> "!a", decoded |-> [portnum |-> "TEXT_MESSAGE_APP"]],
          [fromId |-> "!a", decoded |-> [portnum |-> "POSITION_APP"]]}

\* bytes.decode('utf-8', errors='replace') on ASCII bytes and on bytes that
\* belong to no UTF-8 sequence (each becomes U+FFFD).
Decode(payload) ==
    [i \in 1..Len(payload) |-> IF payload[i] < 128 THEN payload[i] ELSE 65533]

\* str.lower() on these code points.
Lower(s) ==
    [i \in 1..Len(s) |-> IF s[i] \in 65..90 THEN s[i] + 32 ELSE s[i]]

IsSpace(c) == c \in {9, 10, 11, 12, 13, 28, 29, 30, 31, 32, 133, 160}

\* str.strip()
Strip(s) ==
    LET keep == {i \in 1..Len(s) : ~IsSpace(s[i])}
    IN  IF keep = {} THEN <<>>
        ELSE SubSeq(s, CHOOSE i \in keep : \A j \in keep : i <= j,
                       CHOOSE i \in keep : \A j \in keep : i >= j)

\* keyword in message
Contains(keyword, message) ==
    \E i \in 1..(Len(message) - Len(keyword) + 1) :
        SubSeq(message, i, i + Len(keyword) - 1) = keyword

\* The rules whose keyword the message contains (line 92).
Hits(message_lower) ==
    {i \in 1..Len(RESPONSES) : Contains(Lower(RESPONSES[i].keyword), message_lower)}

LastMatch(message_lower) ==
    LET hits == Hits(message_lower)
    IN  IF hits = {} THEN 0 ELSE CHOOSE i \in hits : \A j \in hits : i >= j

\* Lines 91-102: the loop stops at the first rule that matches; 0 when none does.
FirstMatch(message_lower) ==
    LET hits == Hits(message_lower)
    IN  IF hits = {} THEN 0 ELSE CHOOSE i \in hits : \A j \in hits : i <= j

\* Lines 76-77 and the loop's outcome for every payload, computed once:
\* message_lower, and the rule answered (0: none).
Scan ==
    [p \in Payloads \cup {NoPayload} |->
        LET message_lower == Strip(Lower(Decode(p)))
        IN  [message_lower |-> message_lower, match |-> FirstMatch(message_lower),
             trigger |-> Hits(message_lower) # {}]]

\* get_battery_info returns None on every path.
get_battery_info == <<>>

\* Lines 94-97.
ResponseText(rule) ==
    IF /\ Lower(rule.keyword) = <<115, 116, 97, 116, 117, 115>>
       /\ INCLUDE_BATTERY_IN_STATUS
       /\ get_battery_info # <<>>
    THEN <<rule.response, " Battery: ", get_battery_info>>
    ELSE rule.response

ResponderCooldownActiveInclusive(current_time, last_time) ==
    current_time - last_time <= RESPONSE_COOLDOWN

\* The cooldown test of line 86.
ResponderCooldownActive(current_time, last_time) ==
    current_time - last_time < RESPONSE_COOLDOWN

\* on_receive of auto_responder.py, one whole call.
ResponderOnReceive(packet, outcome) ==
    /\ prog = "responder"
    /\ UNCHANGED <<prog, skew, inflight,
                   now, config, battery_vars, temperature_last_alert_time,
                   broadcaster_vars>>
    /\ IF \/ "decoded" \notin DOMAIN packet
          \/ Get(packet.decoded, "portnum", "") # "TEXT_MESSAGE_APP"
       THEN /\ last' = [NoCall EXCEPT !.handler = "responder",
                                  !.input = <<packet>>]
            /\ UNCHANGED <<last_response_time, emitted>>
       ELSE
       LET sender_id == Get(packet, "fromId", "unknown")
           scan == Scan[Get(packet.decoded, "payload", NoPayload)]
           message_lower == scan.message_lower
           current_time == now
           last_time == Get(last_response_time, sender_id, 0)
           match == scan.match
           obs == [NoCall EXCEPT
                     !.handler = "responder", !.sender = sender_id,
                     !.input = <<packet>>,
                     !.at = current_time, !.done = current_time,
                     !.real = current_time - skew,
                     !.last_time = last_time,
                     !.prev_emit = Get(emitted, sender_id, <<>>),
                     !.trigger = scan.trigger,
                     !.logged = <<message_lower>>]
       IN
       IF ResponderCooldownActive(current_time, last_time)
       THEN /\ last' = [obs EXCEPT !.gated = TRUE]
            /\ UNCHANGED <<last_response_time, emitted>>
       ELSE IF match = 0
       THEN /\ last' = obs
            /\ UNCHANGED <<last_response_time, emitted>>
       ELSE /\ last' = [obs EXCEPT
                          !.value = match,
                          !.calls = <<SendCall(ResponseText(RESPONSES[match]),
                                               <<sender_id>>, <<>>, outcome)>>,
                          !.raised = (outcome = "raise")]
            /\ emitted' = Put(emitted, sender_id,
                                <<current_time, current_time - skew>>)
            /\ last_response_time' =
                 IF outcome = "ok"
                 THEN Put(last_response_time, sender_id, current_time)
                 ELSE last_response_time

-----------------------------------------------------------------------------
(* scheduled_broadcaster.py *)

INTERVAL_MINUTES == 60

CHANNEL_INDEX == 0

\* time.sleep(1)
POLL_SECONDS == 1

interval_seconds == INTERVAL_MINUTES * 60

\* How long one sendText call may take: no time, or blocked for more than an
\* interval.
SendDurations == {0, interval_seconds + 1}

\* time.sleep(1) returns after one second or later.
SleepDurations == {POLL_SECONDS, POLL_SECONDS + 1}

\* The clock is followed this far after the start.
BroadcastHorizon == (MaxWindows + 1) * interval_seconds + ShortGap

DueEarly(current_time, sent_at) == current_time - sent_at >= interval_seconds - 1

DueLate(current_time, sent_at) == current_time - sent_at > interval_seconds

\* The test of line 102.
Due(current_time, sent_at) == current_time - sent_at >= interval_seconds

\* send_scheduled_message, started at `now` and taking d seconds; an exception
\* of sendText is caught inside it.  Line 104 (and 97) then read the clock.
SendScheduledMessage(d, outcome) ==
    /\ now + d <= StartTime + BroadcastHorizon
    /\ now' = now + d
    /\ last' = [NoCall EXCEPT
                  !.handler = "broadcaster", !.at = now, !.done = now + d,
                  !.calls = <<SendCall("Automated check-in at {time}", <<>>,
                                       <<CHANNEL_INDEX>>, outcome)>>,
                  !.prev_done = IF last.handler = "broadcaster"
                                THEN <<last.done>> ELSE <<>>]
    /\ last_send' = now + d
    /\ resumed' = (d > interval_seconds)
    /\ pc' = "test"
    /\ UNCHANGED running

\* Lines 79-84: SerialInterface() returns or raises; a failure exits with 1.
Connect(ok) ==
    /\ prog = "broadcaster" /\ pc = "connect"
    /\ pc' = IF ok THEN "first_send" ELSE "exit1"
    /\ UNCHANGED <<prog, skew, inflight,
                   now, config, battery_vars, temperature_last_alert_time,
                   last_response_time, running, last_send, resumed, last, emitted>>

\* Lines 91-97: the first message, at once.
FirstSend(d, outcome) ==
    /\ prog = "broadcaster" /\ pc = "first_send"
    /\ SendScheduledMessage(d, outcome)
    /\ UNCHANGED <<prog, skew, inflight,
                   config, battery_vars, temperature_last_alert_time,
                   last_response_time, emitted>>

\* Line 98: while running
LoopTest ==
    /\ prog = "broadcaster" /\ pc = "test"
    /\ pc' = IF running THEN "sleep" ELSE "returned"
    /\ UNCHANGED <<prog, skew, inflight,
                   now, config, battery_vars, temperature_last_alert_time,
                   last_response_time, running, last_send, resumed, last, emitted>>

\* Line 99: time.sleep(1)
Sleep(d) ==
    /\ prog = "broadcaster" /\ pc = "sleep"
    /\ now + d <= StartTime + BroadcastHorizon
    /\ now' = now + d
    /\ pc' = "check"
    /\ UNCHANGED <<prog, skew, inflight,
                   config, battery_vars, temperature_last_alert_time,
                   last_response_time, running, last_send, resumed, last, emitted>>

\* Lines 102-104, the interval has passed.
CheckSend(d, outcome) ==
    /\ prog = "broadcaster" /\ pc = "check"
    /\ Due(now, last_send)
    /\ SendScheduledMessage(d, outcome)
    /\ UNCHANGED <<prog, skew, inflight,
                   config, battery_vars, temperature_last_alert_time,
                   last_response_time, emitted>>

\* Line 102, the interval has not passed.
CheckSkip ==
    /\ prog = "broadcaster" /\ pc = "check"
    /\ ~Due(now, last_send)
    /\ pc' = "test"
    /\ resumed' = FALSE
    /\ UNCHANGED <<prog, skew, inflight,
                   now, config, battery_vars, temperature_last_alert_time,
                   last_response_time, running, last_send, last, emitted>>

ShutdownNoExit ==
    /\ prog = "broadcaster" /\ pc \notin {"exit0", "exit1", "returned"}
    /\ running' = FALSE
    /\ pc' = pc
    /\ UNCHANGED <<prog, skew, inflight,
                   now, config, battery_vars, temperature_last_alert_time,
                   last_response_time, last_send, resumed, last, emitted>>

\* Lines 60-67: SIGINT or SIGTERM; the handler ends the process with sys.exit(0).
Shutdown ==
    /\ prog = "broadcaster" /\ pc \notin {"exit0", "exit1", "returned"}
    /\ running' = FALSE
    /\ pc' = "exit0"
    /\ UNCHANGED <<prog, skew, inflight,
                   now, config, battery_vars, temperature_last_alert_time,
                   last_response_time, last_send, resumed, last, emitted>>

\* SIGINT or SIGTERM while send_scheduled_message is running (called at line 91
\* or 103): sendText has been called, the handler's sys.exit(0) raises
\* SystemExit inside it, which `except Exception` (line 56) does not catch.
ShutdownInSend ==
    /\ prog = "broadcaster"
    /\ pc = "first_send" \/ (pc = "check" /\ Due(now, last_send))
    /\ last' = [NoCall EXCEPT
                  !.handler = "broadcaster", !.at = now, !.done = now,
                  !.calls = <<SendCall("Automated check-in at {time}", <<>>,
                                       <<CHANNEL_INDEX>>, "interrupted")>>,
                  !.prev_done = IF last.handler = "broadcaster"
                                THEN <<last.done>> ELSE <<>>]
    /\ running' = FALSE
    /\ pc' = "exit0"
    /\ UNCHANGED <<prog, skew, inflight,
                   now, config, battery_vars, temperature_last_alert_time,
                   last_response_time, last_send, resumed, emitted>>

-----------------------------------------------------------------------------
(* The clock of the packet handlers *)

Cooldown ==
    CASE prog = "battery" -> BATTERY_ALERT_COOLDOWN
      [] prog = "temperature" -> TEMPERATURE_ALERT_COOLDOWN
      [] OTHER -> RESPONSE_COOLDOWN

\* The instants at which packets are delivered: shortly after the start, and
\* just before and at every cooldown boundary.
TimePoints ==
    {StartTime + ShortGap}
    \cup {StartTime + k * Cooldown + o : k \in 0..MaxWindows, o \in {0, Cooldown - 1}}

\* Time passes between two deliveries.
Tick ==
    /\ prog \in {"battery", "temperature", "responder"}
    /\ \E t \in TimePoints : t > now /\ now' = t
    /\ UNCHANGED <<prog, skew, inflight,
                   config, battery_vars, temperature_last_alert_time,
                   last_response_time, broadcaster_vars, last, emitted>>

-----------------------------------------------------------------------------
(* message_logger.py *)

\* on_receive of message_logger.py, one whole call.  A text packet without a
\* payload is logged with the empty message (line 56: .get('payload', b'')).
LoggerOnReceive(packet) ==
    /\ prog = "logger"
    /\ UNCHANGED <<prog, skew, inflight,
                   now, config, battery_vars, temperature_last_alert_time,
                   last_response_time, broadcaster_vars, emitted>>
    /\ IF \/ "decoded" \notin DOMAIN packet
          \/ Get(packet.decoded, "portnum", "") # "TEXT_MESSAGE_APP"
       THEN last' = [NoCall EXCEPT !.handler = "logger", !.input = <<packet>>]
       ELSE
       LET sender_id == Get(packet, "fromId", "unknown")
           sender_name == get_node_name(NodeDirectory, sender_id)
           message == Decode(Get(packet.decoded, "payload", NoPayload))
           log_entry == [name |-> sender_name, message |-> message]
       IN  last' = [NoCall EXCEPT
                      !.handler = "logger", !.sender = sender_id,
                      !.input = <<packet>>, !.logged = <<log_entry>>]

-----------------------------------------------------------------------------
(* position_tracker.py *)

\* Python numbers: the int n is [int |-> n]; a float is written by the number
\* of 1e-7 it holds, [e7 |-> k] being k * 1e-7 (coordinates are multiples of
\* 1e-7 degree; n / 1e7 is the float nearest to n * 1e-7).
PyInt(n) == [int |-> n]

PyFloat(k) == [e7 |-> k]

\* isinstance(x, int)
IsInt(x) == "int" \in DOMAIN x

\* What a number holds, in units of 1e-7.
InE7(x) == IF IsInt(x) THEN x.int * 10000000 ELSE x.e7

Abs(n) == IF n < 0 THEN -n ELSE n

\* bool(x) of an optional number: None and zero are false.
Truthy(x) == x # <<>> /\ InE7(x[1]) # 0

\* a or b
PyOr(a, b) == IF Truthy(a) THEN a ELSE b

\* dict.get(key): None when the key is absent.
GetOrNone(d, k) == IF k \in DOMAIN d THEN <<d[k]>> ELSE <<>>

\* Coordinates of the positions reported, in 1e-7 degree: 0, 0.00001,
\* 0.0000181 and 45.1234567 degrees.
Coordinates == {0, 100, 181, 451234567}

\* A position dict that carries the coordinates as floats ("decimal"), as
\* fixed-point integers ("fixed"), or both ways.
PositionDict(form, lat, lon) ==
    CASE form = "decimal" -> [latitude |-> PyFloat(lat), longitude |-> PyFloat(lon)]
      [] form = "fixed" -> [latitudeI |-> PyInt(lat), longitudeI |-> PyInt(lon)]
      [] OTHER -> [latitude |-> PyFloat(lat), longitude |-> PyFloat(lon),
                   latitudeI |-> PyInt(lat), longitudeI |-> PyInt(lon),
                   altitude |-> PyInt(12)]

PositionPackets ==
    {[fromId |-> "!a", decoded |-> [portnum |-> "POSITION_APP",
                                     position |-> PositionDict(form, lat, lon)]] :
        form \in {"decimal", "fixed", "both"}, lat \in Coordinates, lon \in Coordinates}
    \cup {[fromId |-> "!a"],
          [fromId |-> "!a", decoded |-> [portnum |-> "TEXT_MESSAGE_APP"]],
          [fromId |-> "!a", decoded |-> [portnum |-> "POSITION_APP"]],
          [fromId |-> "!b",
           decoded |-> [portnum |-> "POSITION_APP",
                        position |-> [latitude |-> PyFloat(451234567)]]],
          [decoded |-> [portnum |-> "POSITION_APP",
                        position |-> [longitudeI |-> PyInt(181),
                                      altitude |-> PyInt(12)]]]}

NormalizeBeyond181(x) ==
    IF IsInt(x) /\ Abs(x.int) > 181 THEN PyFloat(x.int) ELSE x

\* Lines 73-76: an int beyond 180 is taken as fixed-point and divided by 1e7.
Normalize(x) ==
    IF IsInt(x) /\ Abs(x.int) > 180 THEN PyFloat(x.int) ELSE x

\* on_receive of position_tracker.py, one whole call.  The timestamp column is
\* left out of the row.
PositionOnReceive(packet) ==
    /\ prog = "position"
    /\ UNCHANGED <<prog, skew, inflight,
                   now, config, battery_vars, temperature_last_alert_time,
                   last_response_time, broadcaster_vars, emitted>>
    /\ LET prev == IF last.logged # <<>>
                   THEN <<[input |-> last.input[1], logged |-> last.logged[1]]>>
                   ELSE last.prev
           dropped == [NoCall EXCEPT !.handler = "position",
                                     !.input = <<packet>>, !.prev = prev]
       IN
       IF \/ "decoded" \notin DOMAIN packet
          \/ Get(packet.decoded, "portnum", "") # "POSITION_APP"
       THEN last' = dropped
       ELSE
       LET position == Get(packet.decoded, "position", EmptyDict)
           lat == PyOr(GetOrNone(position, "latitude"),
                       GetOrNone(position, "latitudeI"))
           lon == PyOr(GetOrNone(position, "longitude"),
                       GetOrNone(position, "longitudeI"))
       IN
       IF lat = <<>> \/ lon = <<>>
       THEN last' = dropped
       ELSE
       LET sender_id == Get(packet, "fromId", "unknown")
           sender_name == get_node_name(NodeDirectory, sender_id)
           row == [node_id |-> sender_id, node_name |-> sender_name,
                   latitude |-> Normalize(lat[1]),
                   longitude |-> Normalize(lon[1]),
                   altitude |-> GetOrNone(position, "altitude"),
                   speed |-> GetOrNone(position, "groundSpeed"),
                   heading |-> GetOrNone(position, "groundTrack")]
       IN  last' = [NoCall EXCEPT
                      !.handler = "position", !.sender = sender_id,
                      !.input = <<packet>>, !.logged = <<row>>, !.prev = prev]

-----------------------------------------------------------------------------
(* The scripts as they run: one delivery at a time *)

Programs ==
    {"battery", "temperature", "responder", "broadcaster", "logger", "position"}

Init ==
    /\ prog \in Programs
    /\ now = StartTime
    /\ config \in IF prog = "temperature" THEN Configs ELSE {ShippedConfig}
    /\ battery_last_alert_time = EmptyDict
    /\ node_batteries = EmptyDict
    /\ temperature_last_alert_time = 0
    /\ last_response_time = EmptyDict
    /\ pc = IF prog = "broadcaster" THEN "connect" ELSE "serving"
    /\ running = TRUE
    /\ last_send = 0
    /\ resumed = FALSE
    /\ last = NoCall
    /\ emitted = EmptyDict
    /\ skew = 0
    /\ inflight = EmptyDict

Next ==
    \/ Tick
    \/ \E packet \in BatteryPackets, outcome \in SendOutcomes :
          BatteryOnReceive(packet, outcome)
    \/ \E packet \in TemperaturePackets, outcome \in SendOutcomes :
          TemperatureOnReceive(packet, outcome)
    \/ \E packet \in TextPackets, outcome \in SendOutcomes :
          ResponderOnReceive(packet, outcome)
    \/ \E packet \in TextPackets : LoggerOnReceive(packet)
    \/ \E packet \in PositionPackets : PositionOnReceive(packet)
    \/ \E ok \in BOOLEAN : Connect(ok)
    \/ \E d \in SendDurations, outcome \in SendOutcomes : FirstSend(d, outcome)
    \/ LoopTest
    \/ \E d \in SleepDurations : Sleep(d)
    \/ \E d \in SendDurations, outcome \in SendOutcomes : CheckSend(d, outcome)
    \/ CheckSkip
    \/ Shutdown
    \/ ShutdownInSend

Spec == Init /\ [][Next]_vars

\* The steps of main() of scheduled_broadcaster.py: the main thread keeps
\* running until the process ends.
MainStep ==
    \/ \E ok \in BOOLEAN : Connect(ok)
    \/ \E d \in SendDurations, outcome \in SendOutcomes : FirstSend(d, outcome)
    \/ LoopTest
    \/ \E d \in SleepDurations : Sleep(d)
    \/ \E d \in SendDurations, outcome \in SendOutcomes : CheckSend(d, outcome)
    \/ CheckSkip

\* scheduled_broadcaster.py on its own: main() and the signal handler.
BroadcasterInit == Init /\ prog = "broadcaster"

BroadcasterNext == MainStep \/ Shutdown \/ ShutdownInSend

FairSpec == BroadcasterInit /\ [][BroadcasterNext]_vars /\ WF_vars(MainStep)

-----------------------------------------------------------------------------
(* Handler calls that run concurrently *)

\* on_receive takes no lock.  Two calls may be in progress at once; each is cut
\* at the two places where another call can see a difference: before sendText
\* and before the cooldown timestamp is stored.  sendText returns.

Threads == {1, 2}

\* del d[k]: the locals of a call go away when it returns.
Drop(d, k) == [x \in (DOMAIN d) \ {k} |-> d[x]]

\* battery_monitor.py lines 65-110: the call up to the cooldown test.  A call
\* that does not alert ends here.
BatteryBegin(th, packet) ==
    /\ prog = "battery"
    /\ th \notin DOMAIN inflight
    /\ UNCHANGED <<prog, skew, now, config, temperature_last_alert_time,
                   last_response_time, broadcaster_vars, battery_last_alert_time,
                   last, emitted>>
    /\ IF "decoded" \notin DOMAIN packet
       THEN UNCHANGED <<node_batteries, inflight>>
       ELSE
       LET portnum == Get(packet.decoded, "portnum", "")
           telemetry == Get(packet.decoded, "telemetry", EmptyDict)
           device_metrics == Get(telemetry, "deviceMetrics", EmptyDict)
       IN
       IF portnum # "TELEMETRY_APP" \/ "batteryLevel" \notin DOMAIN device_metrics
       THEN UNCHANGED <<node_batteries, inflight>>
       ELSE
       LET battery_level == device_metrics.batteryLevel
           sender_id == Get(packet, "fromId", "unknown")
           sender_name == get_node_name(NodeDirectory, sender_id)
           current_time == now
           last_time == Get(battery_last_alert_time, sender_id, 0)
       IN
       /\ node_batteries' = Put(node_batteries, sender_id, battery_level)
       /\ inflight' =
            IF /\ BatteryIsLow(battery_level)
               /\ BatteryCooldownPassed(current_time, last_time)
            THEN Put(inflight, th,
                     [step |-> "send", sender_id |-> sender_id,
                      current_time |-> current_time, last_time |-> last_time,
                      text |-> [kind |-> "LOW BATTERY", name |-> sender_name,
                                value |-> battery_level],
                      destinationId |-> <<>>])
            ELSE inflight

\* battery_monitor.py line 111: interface.sendText(alert_msg)
BatterySend(th) ==
    /\ prog = "battery"
    /\ th \in DOMAIN inflight
    /\ inflight[th].step = "send"
    /\ LET locals == inflight[th]
       IN  /\ last' = [NoCall EXCEPT
                         !.handler = "battery", !.sender = locals.sender_id,
                         !.at = now, !.done = now, !.real = now - skew,
                         !.last_time = locals.last_time,
                         !.trigger = TRUE,
                         !.prev_emit = Get(emitted, locals.sender_id, <<>>),
                         !.calls = <<SendCall(locals.text, locals.destinationId,
                                              <<>>, "ok")>>]
           /\ emitted' = Put(emitted, locals.sender_id,
                             <<now, now - skew, locals.text.value>>)
           /\ inflight' = Put(inflight, th, [locals EXCEPT !.step = "stamp"])
    /\ UNCHANGED <<prog, skew, now, config, battery_vars,
                   temperature_last_alert_time, last_response_time,
                   broadcaster_vars>>

\* battery_monitor.py line 112: last_alert_time[sender_id] = current_time
BatteryStamp(th) ==
    /\ prog = "battery"
    /\ th \in DOMAIN inflight
    /\ inflight[th].step = "stamp"
    /\ battery_last_alert_time' =
         Put(battery_last_alert_time, inflight[th].sender_id,
             inflight[th].current_time)
    /\ inflight' = Drop(inflight, th)
    /\ UNCHANGED <<prog, skew, now, config, node_batteries,
                   temperature_last_alert_time, last_response_time,
                   broadcaster_vars, last, emitted>>

\* auto_responder.py lines 67-99: the call up to the reply.  A call that is
\* suppressed by the cooldown or matches no keyword ends here.
ResponderBegin(th, packet) ==
    /\ prog = "responder"
    /\ th \notin DOMAIN inflight
    /\ UNCHANGED <<prog, skew, now, config, battery_vars,
                   temperature_last_alert_time, last_response_time,
                   broadcaster_vars, last, emitted>>
    /\ IF \/ "decoded" \notin DOMAIN packet
          \/ Get(packet.decoded, "portnum", "") # "TEXT_MESSAGE_APP"
       THEN UNCHANGED inflight
       ELSE
       LET sender_id == Get(packet, "fromId", "unknown")
           scan == Scan[Get(packet.decoded, "payload", NoPayload)]
           current_time == now
           last_time == Get(last_response_time, sender_id, 0)
       IN
       inflight' =
         IF ~ResponderCooldownActive(current_time, last_time) /\ scan.match # 0
         THEN Put(inflight, th,
                  [step |-> "send", sender_id |-> sender_id,
                   current_time |-> current_time, last_time |-> last_time,
                   text |-> ResponseText(RESPONSES[scan.match]),
                   destinationId |-> <<sender_id>>])
         ELSE inflight

\* auto_responder.py line 100: interface.sendText(response, destinationId=sender_id)
ResponderSend(th) ==
    /\ prog = "responder"
    /\ th \in DOMAIN inflight
    /\ inflight[th].step = "send"
    /\ LET locals == inflight[th]
       IN  /\ last' = [NoCall EXCEPT
                         !.handler = "responder", !.sender = locals.sender_id,
                         !.at = now, !.done = now, !.real = now - skew,
                         !.last_time = locals.last_time,
                         !.trigger = TRUE,
                         !.prev_emit = Get(emitted, locals.sender_id, <<>>),
                         !.calls = <<SendCall(locals.text, locals.destinationId,
                                              <<>>, "ok")>>]
           /\ emitted' = Put(emitted, locals.sender_id, <<now, now - skew>>)
           /\ inflight' = Put(inflight, th, [locals EXCEPT !.step = "stamp"])
    /\ UNCHANGED <<prog, skew, now, config, battery_vars,
                   temperature_last_alert_time, last_response_time,
                   broadcaster_vars>>

\* auto_responder.py lines 101-102: last_response_time[sender_id] = current_time
ResponderStamp(th) ==
    /\ prog = "responder"
    /\ th \in DOMAIN inflight
    /\ inflight[th].step = "stamp"
    /\ last_response_time' =
         Put(last_response_time, inflight[th].sender_id,
             inflight[th].current_time)
    /\ inflight' = Drop(inflight, th)
    /\ UNCHANGED <<prog, skew, now, config, battery_vars,
                   temperature_last_alert_time, broadcaster_vars, last, emitted>>

\* The text packets delivered concurrently: b"Status?" and b"HELLO" from each
\* node, and the packets that carry no payload.
ConcurrentTextPackets ==
    {packet \in TextPackets :
        \/ "decoded" \notin DOMAIN packet
        \/ Get(packet.decoded, "payload", <<83, 116, 97, 116, 117, 115, 63>>)
              \in {<<83, 116, 97, 116, 117, 115, 63>>, <<72, 69, 76, 76, 79>>}}

\* The packets that do not come from a second node.
FromOneNode(packets) ==
    {packet \in packets : Get(packet, "fromId", "!a") = "!a"}

ConcurrentInit == Init /\ prog \in {"battery", "responder"}

ConcurrentNext ==
    \/ Tick
    \/ \E th \in Threads, packet \in FromOneNode(BatteryPackets) :
          BatteryBegin(th, packet)
    \/ \E th \in Threads : BatterySend(th)
    \/ \E th \in Threads : BatteryStamp(th)
    \/ \E th \in Threads, packet \in FromOneNode(ConcurrentTextPackets) :
          ResponderBegin(th, packet)
    \/ \E th \in Threads : ResponderSend(th)
    \/ \E th \in Threads : ResponderStamp(th)

ConcurrentSpec == ConcurrentInit /\ [][ConcurrentNext]_vars

-----------------------------------------------------------------------------
(* The system clock is set while the script runs *)

\* time.time() is the system clock: setting it forward or back by d seconds
\* moves what every later time.time() call returns.  Nothing in the scripts
\* notices.
AdjustClock(d) ==
    /\ Abs(skew + d) <= Cooldown
    /\ skew' = skew + d
    /\ now' = now + d
    /\ UNCHANGED <<prog, inflight, config, battery_vars,
                   temperature_last_alert_time, last_response_time,
                   broadcaster_vars, last, emitted>>

\* battery_monitor.py and auto_responder.py, one delivery at a time, no packet
\* from a second node, sendText returning, and the clock set forward or back by one
\* cooldown.
ClockInit == Init /\ prog \in {"battery", "responder"}

ClockNext ==
    \/ Tick
    \/ \E d \in {-Cooldown, Cooldown} : AdjustClock(d)
    \/ \E packet \in FromOneNode(BatteryPackets) : BatteryOnReceive(packet, "ok")
    \/ \E packet \in FromOneNode(ConcurrentTextPackets) :
          ResponderOnReceive(packet, "ok")

ClockSpec == ClockInit /\ [][ClockNext]_vars

-----------------------------------------------------------------------------
(* Properties *)

\* The cooldown timestamp a script keeps for a sender, as it is now.
StampOf(sender) ==
    CASE prog = "battery" -> Get(battery_last_alert_time, sender, 0)
      [] prog = "temperature" -> temperature_last_alert_time
      [] OTHER -> Get(last_response_time, sender, 0)

\* The latest handler call handled an event of its kind (it got past the
\* classification of the packet).
Handled(handler) == last.handler = handler /\ last.sender # ""

\* No sendText was made for the sender during the cooldown before the call.
QuietBefore == last.prev_emit = <<>> \/ last.at - last.prev_emit[1] >= Cooldown

\* C1: threshold-alert cooldown.  Whenever a battery or temperature event makes
\* the handler send an alert for a node, the previous alert sent for that node,
\* if any, is at least the cooldown older.
C1_AtMostOneAlertPerWindow ==
    (/\ Handled("battery") \/ Handled("temperature")
     /\ last.calls # <<>>
     /\ last.prev_emit # <<>>)
    => last.at - last.prev_emit[1] >= Cooldown

\* C2: battery alert decision.  For a battery event of a node with no alert in
\* the last ALERT_COOLDOWN seconds: one broadcast alert is sent and the node's
\* last_alert_time is the event time exactly when the level is at most
\* LOW_BATTERY_THRESHOLD; otherwise nothing is sent and last_alert_time stays.
C2_BatteryAlertDecision ==
    (Handled("battery") /\ QuietBefore)
    => /\ (/\ Len(last.calls) = 1
           /\ last.calls[1].destinationId = <<>>
           /\ StampOf(last.sender) = last.at)
          <=> (last.value <= LOW_BATTERY_THRESHOLD)
       /\ (last.value > LOW_BATTERY_THRESHOLD)
          => (last.calls = <<>> /\ StampOf(last.sender) = last.last_time)

\* C3: keyword first-match-wins.  For a text message that the cooldown does
\* not suppress and that contains the keywords of two rules a before b: one
\* reply is sent, it is not b's response, and it is a's response when no rule
\* declared before a matches.
C3_FirstMatchWins ==
    (Handled("responder") /\ ~last.gated)
    => \A a, b \in 1..Len(RESPONSES) :
          (/\ a < b
           /\ Contains(Lower(RESPONSES[a].keyword), last.logged[1])
           /\ Contains(Lower(RESPONSES[b].keyword), last.logged[1]))
          => /\ Len(last.calls) = 1
             /\ last.calls[1].text # RESPONSES[b].response
             /\ (\A c \in 1..(a - 1) :
                    ~Contains(Lower(RESPONSES[c].keyword), last.logged[1]))
                => last.calls[1].text = RESPONSES[a].response

\* "help status": "help" comes first in the text, "status" first in RESPONSES.
C3_Witness ==
    /\ Handled("responder")
    /\ last.logged = <<<<104, 101, 108, 112, 32, 115, 116, 97, 116, 117, 115>>>>
    /\ Len(last.calls) = 1
    /\ last.calls[1].text = RESPONSES[1].response

\* C4: keyword cooldown suppression does not touch state.  A text message
\* handled less than RESPONSE_COOLDOWN after last_response_time[sender] gets no
\* reply and leaves last_response_time[sender] as it was; and a message that
\* contains a keyword and is handled at least RESPONSE_COOLDOWN after the
\* latest reply sent to its sender is answered.
C4_SuppressionKeepsState ==
    /\ (Handled("responder") /\ last.at - last.last_time < RESPONSE_COOLDOWN)
       => (last.calls = <<>> /\ StampOf(last.sender) = last.last_time)
    /\ (Handled("responder") /\ last.trigger /\ QuietBefore)
       => Len(last.calls) = 1

\* A matching message suppressed one second before the cooldown ends.
C4_Witness ==
    /\ Handled("responder")
    /\ last.trigger
    /\ last.at - last.last_time = RESPONSE_COOLDOWN - 1
    /\ last.calls = <<>>
    /\ StampOf(last.sender) = last.last_time

\* C5: at most one outbound send per inbound event.  No handler call and no
\* scheduled send makes more than one sendText call; a temperature reading
\* below the low and above the high threshold, not suppressed by the
\* cooldown, gives the LOW alert.
C5_AtMostOneSendPerEvent ==
    /\ Len(last.calls) <= 1
    /\ (/\ Handled("temperature")
        /\ ~last.gated
        /\ last.value < low_threshold(config)
        /\ last.value > high_threshold(config))
       => (Len(last.calls) = 1 /\ last.calls[1].text.kind = "LOW TEMP ALERT")

C5_Witness ==
    /\ Handled("temperature")
    /\ last.value < low_threshold(config)
    /\ last.value > high_threshold(config)
    /\ Len(last.calls) = 1

\* C6: threshold cooldown is tracked per node.  A threshold-crossing
\* temperature event of a node that had no alert of its own within the
\* cooldown sends an alert, whatever other nodes did.
C6_TemperatureCooldownPerNode ==
    (Handled("temperature") /\ last.trigger /\ QuietBefore)
    => Len(last.calls) = 1

\* C7: cooldown state is updated before the send and kept when it fails.
\* After a handler call whose sendText raised, the sender's cooldown timestamp
\* is the time of that event.
C7_StampedBeforeSend ==
    (/\ last.handler \in {"battery", "temperature", "responder"}
     /\ last.calls # <<>>
     /\ last.calls[1].outcome = "raise")
    => StampOf(last.sender) = last.at

\* C8: a transport send failure never crashes the engine.  No handler call and
\* no scheduler iteration lets an exception of sendText out to its caller.
C8_SendFailureCaught == ~last.raised

\* C9: the scheduler never fires twice for the same interval.  Every
\* scheduled send starts at least interval_seconds after the previous one
\* ended.
C9_SendsAnIntervalApart ==
    (last.handler = "broadcaster" /\ last.prev_done # <<>>)
    => last.at - last.prev_done[1] >= interval_seconds

\* A second send exactly one interval after the first one ended.
C9_Witness ==
    /\ last.handler = "broadcaster"
    /\ last.prev_done # <<>>
    /\ last.at - last.prev_done[1] = interval_seconds

\* C10: scheduler resume after a blocked send.  At the first poll after a
\* send that blocked for more than an interval, the scheduler fires.
C10_FiresAtOnceAfterBlockedSend ==
    (prog = "broadcaster" /\ pc = "check" /\ resumed) => Due(now, last_send)

\* C11: scheduler progress.  The first broadcast starts at the moment the
\* connection is made, before any sleep; every broadcast has no destinationId
\* and goes to CHANNEL_INDEX; once interval_seconds have passed since the
\* previous send returned the loop does not go on without sending, the send
\* starts at most one polling tick late, and unless the process is shut down it
\* is made eventually.
C11_SchedulerProgress ==
    /\ [](prog = "broadcaster" =>
            /\ (last.handler = "broadcaster" /\ last.prev_done = <<>>)
               => last.at = StartTime
            /\ last.handler = "broadcaster"
               => /\ Len(last.calls) = 1
                  /\ last.calls[1].destinationId = <<>>
                  /\ last.calls[1].channelIndex = <<CHANNEL_INDEX>>
            /\ pc \in {"test", "sleep"} => now - last_send < interval_seconds
            /\ pc = "check" => now - last_send <= interval_seconds + POLL_SECONDS)
    /\ (prog = "broadcaster" /\ pc = "first_send")
          ~> (last.handler = "broadcaster" \/ pc = "exit0")
    /\ (prog = "broadcaster" /\ pc = "check" /\ now - last_send >= interval_seconds)
          ~> (now - last_send < interval_seconds \/ pc = "exit0")

\* A broadcast that starts one polling tick after the interval has passed.
C11_Witness ==
    /\ last.handler = "broadcaster"
    /\ last.prev_done # <<>>
    /\ last.at - last.prev_done[1] = interval_seconds + POLL_SECONDS
    /\ last.calls[1].destinationId = <<>>

\* C12: scheduler cancellation.  Once shutdown has been requested (running is
\* False) the process has ended, and from then on no broadcast is started and
\* the record of the latest send stays as it is; the step that handles the
\* signal leaves the latest send as it was unless it interrupts a send that
\* had just been started.
C12_NoSendAfterShutdown ==
    /\ [](prog = "broadcaster" /\ ~running => pc = "exit0")
    /\ [][(prog = "broadcaster" /\ ~running) => last' = last]_vars
    /\ [][(prog = "broadcaster" /\ running /\ ~running')
           => \/ last' = last
              \/ /\ last'.calls # <<>>
                 /\ last'.at = now
                 /\ last'.prev_done = IF last.handler = "broadcaster"
                                      THEN <<last.done>> ELSE <<>>]_vars

\* Shut down while the second broadcast was being sent.
C12_Witness ==
    /\ prog = "broadcaster"
    /\ ~running
    /\ pc = "exit0"
    /\ last.prev_done # <<>>
    /\ last.calls[1].outcome = "interrupted"

\* C13: same-node serialization.  With handler calls for one node running
\* concurrently, a sendText for a node is never made less than the cooldown
\* after the previous sendText for that node.
C13_OneAlertPerWindowWhenConcurrent ==
    (/\ last.handler \in {"battery", "responder"}
     /\ last.calls # <<>>
     /\ last.prev_emit # <<>>)
    => last.at - last.prev_emit[1] >= Cooldown

\* The packet lacks a sub-field that its kind requires: the decoded section, the
\* payload of a text message, the metric of the telemetry the script watches,
\* or a coordinate of a position in both of its forms.
Incomplete(packet) ==
    \/ "decoded" \notin DOMAIN packet
    \/ LET decoded == packet.decoded
           portnum == Get(decoded, "portnum", "")
           telemetry == Get(decoded, "telemetry", EmptyDict)
           position == Get(decoded, "position", EmptyDict)
       IN  \/ /\ portnum = "TEXT_MESSAGE_APP"
              /\ "payload" \notin DOMAIN decoded
           \/ /\ portnum = "TELEMETRY_APP"
              /\ prog = "battery"
              /\ "batteryLevel" \notin DOMAIN Get(telemetry, "deviceMetrics", EmptyDict)
           \/ /\ portnum = "TELEMETRY_APP"
              /\ prog = "temperature"
              /\ "temperature" \notin DOMAIN Get(telemetry, "environmentMetrics", EmptyDict)
           \/ /\ portnum = "POSITION_APP"
              /\ \/ {"latitude", "latitudeI"} \cap DOMAIN position = {}
                 \/ {"longitude", "longitudeI"} \cap DOMAIN position = {}

\* C14: malformed or incomplete packets are silently dropped.  A handler call
\* on a packet that lacks a required sub-field makes no sendText call, raises
\* nothing and, in the scripts that keep a file, appends nothing to it.
C14_IncompletePacketsDropped ==
    (last.input # <<>> /\ Incomplete(last.input[1]))
    => /\ last.calls = <<>>
       /\ ~last.raised
       /\ last.handler \in {"battery", "logger", "position"} => last.logged = <<>>

\* The coordinate a position dict carries, in 1e-7 degree: the fixed-point
\* integer as it is, the float by the number of 1e-7 it holds.
Carried(position, decimal, fixed) ==
    IF fixed \in DOMAIN position THEN position[fixed].int
    ELSE position[decimal].e7

\* The two packets carry the same geographic position.
SamePlace(p, q) ==
    LET a == p.decoded.position
        b == q.decoded.position
    IN  /\ Carried(a, "latitude", "latitudeI") = Carried(b, "latitude", "latitudeI")
        /\ Carried(a, "longitude", "longitudeI") = Carried(b, "longitude", "longitudeI")

\* Both coordinates are beyond 180 units of 1e-7 degree.
BeyondScaleTest(p) ==
    LET a == p.decoded.position
    IN  /\ Abs(Carried(a, "latitude", "latitudeI")) > 180
        /\ Abs(Carried(a, "longitude", "longitudeI")) > 180

\* The latest two rows hold the same latitude and the same longitude.
SameCoordinates ==
    /\ InE7(last.logged[1].latitude) = InE7(last.prev[1].logged.latitude)
    /\ InE7(last.logged[1].longitude) = InE7(last.prev[1].logged.longitude)

\* The latest two positions recorded.
TwoRows == prog = "position" /\ last.logged # <<>> /\ last.prev # <<>>

\* C15 as stated: position normalization is form-independent and repeatable.
\* Two recorded events that carry the same geographic position, in whatever
\* form, are recorded with the same latitude and longitude, and the same
\* event recorded twice gives the same row twice.
C15_FormIndependent ==
    TwoRows
    => /\ SamePlace(last.input[1], last.prev[1].input) => SameCoordinates
       /\ last.input[1] = last.prev[1].input => last.logged[1] = last.prev[1].logged

\* C15 amended: the same, for positions whose latitude and longitude are both
\* more than 180 units of 1e-7 degree away from zero.
C15_FormIndependentBeyondScaleTest ==
    TwoRows
    => /\ (/\ SamePlace(last.input[1], last.prev[1].input)
           /\ BeyondScaleTest(last.input[1]))
          => SameCoordinates
       /\ last.input[1] = last.prev[1].input => last.logged[1] = last.prev[1].logged

\* 0.0000181 N, 45.1234567 E recorded from its fixed-point form after its
\* decimal form.
C15_Witness ==
    /\ TwoRows
    /\ DOMAIN last.input[1].decoded.position = {"latitudeI", "longitudeI"}
    /\ DOMAIN last.prev[1].input.decoded.position = {"latitude", "longitude"}
    /\ last.input[1].decoded.position.latitudeI = PyInt(181)
    /\ last.input[1].decoded.position.longitudeI = PyInt(451234567)
    /\ SamePlace(last.input[1], last.prev[1].input)
    /\ SameCoordinates

C17_CooldownInRealTime ==
    /\ (/\ last.handler \in {"battery", "responder"}
        /\ last.calls # <<>>
        /\ last.prev_emit # <<>>)
       => last.real - last.prev_emit[2] >= Cooldown
    /\ (/\ last.handler \in {"battery", "responder"}
        /\ last.trigger
        /\ last.prev_emit = <<>> \/ last.real - last.prev_emit[2] >= Cooldown)
       => last.calls # <<>>

\* C18: the keyword-response cooldown is per sender.  A text message handled
\* less than RESPONSE_COOLDOWN after a reply was sent to its sender, whatever
\* keyword that reply answered and whatever keyword the message holds, gets no
\* reply.
C18_SuppressedWhateverTheKeyword ==
    (/\ Handled("responder")
     /\ last.prev_emit # <<>>
     /\ last.at - last.prev_emit[1] < RESPONSE_COOLDOWN)
    => last.calls = <<>>

\* C19: keyword replies are matched case-insensitively and addressed to the
\* sender.  A text message that is not in cooldown and whose lower-cased,
\* trimmed body contains a keyword gets one sendText call, with destinationId
\* the sender id of the message, and last_response_time of the sender is then
\* the time of the event.
C19_ReplyAddressedToSender ==
    (/\ Handled("responder")
     /\ ~ResponderCooldownActive(last.at, last.last_time)
     /\ \E i \in 1..Len(RESPONSES) :
           Contains(Lower(RESPONSES[i].keyword),
                    Strip(Lower(Decode(Get(last.input[1].decoded, "payload",
                                           NoPayload))))))
    => /\ Len(last.calls) = 1
       /\ last.calls[1].destinationId = <<last.sender>>
       /\ last.sender = Get(last.input[1], "fromId", "unknown")
       /\ StampOf(last.sender) = last.at

\* C20 as stated: no repeated alert unless the battery is newly low or has
\* dropped further.  A battery event at or below the threshold, from a node
\* whose previous reading was already at or below it and whose level is not
\* lower than the level of the node's previous alert, sends no alert.
C20_NoRepeatUnlessLower ==
    (/\ Handled("battery")
     /\ last.value <= LOW_BATTERY_THRESHOLD
     /\ last.previous_level # <<>>
     /\ last.previous_level[1] <= LOW_BATTERY_THRESHOLD
     /\ last.prev_emit # <<>>
     /\ last.value >= last.prev_emit[3])
    => last.calls = <<>>

\* The keys the dictionaries of the battery monitor and the auto-responder
\* can hold: the ids of the nodes and the default of packet.get('fromId').
SenderKeys == Nodes \cup {"unknown"}

\* The entries the two scripts keep for a node, before and after a step.
EntriesOf(n) ==
    <<GetOrNone(battery_last_alert_time, n), GetOrNone(node_batteries, n),
      GetOrNone(last_response_time, n)>>

EntriesAfterOf(n) ==
    <<GetOrNone(battery_last_alert_time', n), GetOrNone(node_batteries', n),
      GetOrNone(last_response_time', n)>>

\* A step that is one call of on_receive of the battery monitor or of the
\* auto-responder (the clock does not move during a call).
HandlerStep == prog \in {"battery", "responder"} /\ now' = now

\* C21: cross-node isolation in the battery monitor and the auto-responder.
\* A call of on_receive for an event from one node leaves the entries of every
\* other node (last_alert_time, node_batteries, last_response_time) as they
\* were, and whether the call sends is decided by the event and by the entry
\* of its own sender alone: a battery event sends exactly when its level is at
\* most the threshold and the cooldown since its sender's stored alert time
\* has passed; a text event sends exactly when it holds a keyword and the
\* cooldown since its sender's stored response time has passed.
C21_CrossNodeIsolation ==
    [][HandlerStep =>
        /\ \A n \in SenderKeys :
              n # last'.sender => EntriesAfterOf(n) = EntriesOf(n)
        /\ (last'.handler = "battery" /\ last'.sender # "") =>
              (Len(last'.calls) = 1
               <=> /\ last'.value <= LOW_BATTERY_THRESHOLD
                   /\ last'.at - Get(battery_last_alert_time, last'.sender, 0)
                        >= BATTERY_ALERT_COOLDOWN)
        /\ (last'.handler = "responder" /\ last'.sender # "") =>
              (Len(last'.calls) = 1
               <=> /\ last'.trigger
                   /\ last'.at - Get(last_response_time, last'.sender, 0)
                        >= RESPONSE_COOLDOWN)]_vars

\* A battery alert is sent for node "!b" while node "!a" is inside its own
\* cooldown, and the stored alert time of "!a" is still the older one.
C21_Witness ==
    /\ Handled("battery")
    /\ last.sender = "!b"
    /\ Len(last.calls) = 1
    /\ ~last.raised
    /\ "!a" \in DOMAIN battery_last_alert_time
    /\ "!a" \in DOMAIN node_batteries
    /\ battery_last_alert_time["!a"] < last.at
    /\ last.at - battery_last_alert_time["!a"] < BATTERY_ALERT_COOLDOWN
    /\ battery_last_alert_time["!b"] = last.at

\* The latest call was handed a position event: a decoded packet of port
\* POSITION_APP.
PositionEvent ==
    /\ last.handler = "position"
    /\ last.input # <<>>
    /\ "decoded" \in DOMAIN last.input[1]
    /\ Get(last.input[1].decoded, "portnum", "") = "POSITION_APP"

\* The coordinate is present in the event in at least one of its two forms.
PresentInSomeForm(decimal, fixed) ==
    LET position == Get(last.input[1].decoded, "position", EmptyDict)
    IN  decimal \in DOMAIN position \/ fixed \in DOMAIN position

\* C22: a position event is recorded whenever latitude and longitude are each
\* present in at least one form (latitude/longitude or latitudeI/longitudeI),
\* a value of exactly 0 included, and it is dropped only when a coordinate is
\* absent in both forms: the call writes a row exactly when both coordinates
\* are present.
C22_RecordedWhenBothPresent ==
    PositionEvent
    => (last.logged # <<>>
        <=> /\ PresentInSomeForm("latitude", "latitudeI")
            /\ PresentInSomeForm("longitude", "longitudeI"))

====
